---- MODULE Spec2Model ----
(***************************************************************************)
(* Card catalog service (backend/app): two tables, card_types and cards,   *)
(* accessed through a repository and a service per entity kind, behind     *)
(* FastAPI routes that validate the request body with pydantic schemas and *)
(* obtain one SQLAlchemy session per request from get_db.                  *)
(*                                                                         *)
(* A table is the sequence of its rows in rowid order.  A JSON request     *)
(* body is a record whose domain is the set of keys present in the body.   *)
(* An Optional value is None (<<>>) or Some(v) (<<v>>).                    *)
(***************************************************************************)
EXTENDS Integers, Sequences, FiniteSets, TLC

VARIABLES card_types, cards, resp, pc, db, sessions

vars == <<card_types, cards, resp, pc, db, sessions>>

(* Bounds of the model *)

\* get_by_id and get_by_card_type are probed with the ids 0..MaxId
MaxId == 3

\* number of requests in flight in SessionSpec
NumRequests == 2

(* Values *)

None == <<>>

Some(v) == <<v>>

NoArgs == [k \in {} |-> 0]

Range(s) == {s[i] : i \in 1..Len(s)}

Pad10 == "xxxxxxxxxx"

Pad100 == Pad10 \o Pad10 \o Pad10 \o Pad10 \o Pad10 \o Pad10 \o Pad10 \o Pad10 \o Pad10 \o Pad10

\* a name of 101 characters
LongName == Pad100 \o "x"

\* a description of 501 characters
LongDescription == Pad100 \o Pad100 \o Pad100 \o Pad100 \o Pad100 \o "x"

(* Request bodies *)

CardTypeBodies ==
    { [name |-> "Elemental", description |-> "Fire and ice beings"],
      [name |-> "Undead", description |-> "Bones", image_url |-> "undead.png"],
      [name |-> "Elem", description |-> "Fire and ice beings"],
      [name |-> LongName, description |-> "Fire and ice beings"],
      [name |-> "Undead", description |-> "Fire"],
      [name |-> "Undead", description |-> LongDescription],
      [description |-> "Fire and ice beings"],
      [name |-> "Elemental"] }

CardNames == {"Flame Imp", "Elemental"}

CardTypeIdInputs == 1..2

DefaultStats == [k \in {} |-> 0]

ValidStats ==
    { DefaultStats,
      [mana_price |-> 2, hp |-> 30, attack |-> 40, image_url |-> "imp.png"],
      [mana_price |-> 10, hp |-> 0, attack |-> 100] }

OutOfRangeStats ==
    { [mana_price |-> 0 - 1], [mana_price |-> 11],
      [hp |-> 0 - 1], [hp |-> 101],
      [attack |-> 0 - 1], [attack |-> 101] }

CardBodies ==
    { [name |-> n, description |-> "A small fiery nuisance", card_type_id |-> t] @@ s :
        n \in CardNames, t \in CardTypeIdInputs, s \in ValidStats }
    \cup
    { [name |-> "Flame Imp", description |-> "A small fiery nuisance", card_type_id |-> t] @@ s :
        t \in CardTypeIdInputs, s \in OutOfRangeStats }
    \cup
    { [name |-> "Imp", description |-> "A small fiery nuisance", card_type_id |-> 1],
      [name |-> "Flame Imp", description |-> "A", card_type_id |-> 1],
      [name |-> "Flame Imp", description |-> LongDescription, card_type_id |-> 1],
      [name |-> LongName, description |-> "Hi", card_type_id |-> 1],
      [name |-> "Flame Imp", description |-> "Hi"] }

Ids == 0..MaxId

(* a call returns a value or raises *)

Return(value) == [raised |-> "", status_code |-> 0, value |-> value]

Raise(exception) == [raised |-> exception, status_code |-> 0, value |-> NoArgs]

HTTPException(status_code, detail) ==
    [raised |-> "HTTPException", status_code |-> status_code, value |-> [detail |-> detail]]

(* schemas: pydantic field validation *)

Missing(body, f) ==
    IF f \in DOMAIN body THEN {} ELSE {[loc |-> f, type |-> "missing"]}

StrField(body, f, min_length, max_length) ==
    IF f \notin DOMAIN body THEN {}
    ELSE IF Len(body[f]) < min_length THEN {[loc |-> f, type |-> "string_too_short"]}
    ELSE IF Len(body[f]) > max_length THEN {[loc |-> f, type |-> "string_too_long"]}
    ELSE {}

OptionalField(body, f) == IF f \in DOMAIN body THEN Some(body[f]) ELSE None

\* errors pydantic reports for a CardType body
CardTypeBase_errors(body) ==
    Missing(body, "name") \cup StrField(body, "name", 5, 100)
    \cup Missing(body, "description") \cup StrField(body, "description", 5, 500)

\* the CardTypeCreate instance built from a body without errors
CardTypeCreate(body) ==
    [name |-> body.name,
     description |-> body.description,
     image_url |-> OptionalField(body, "image_url")]

\* import app.schemas.card: class CardCreate(CardBase) and class
\* CardUpdate(CardBase) are written without their colon, so the module does
\* not compile and none of its classes exists
app_schemas_card == Raise("SyntaxError")

\* CardCreate(**body): the class is never defined
CardCreate(body) == app_schemas_card

\* the attributes of an ORM object as a body, for model_validate(from_attributes)
CardTypeAttributes(row) ==
    [name |-> row.name, description |-> row.description]
    @@ (IF row.image_url = None THEN NoArgs ELSE [image_url |-> row.image_url[1]])

\* CardTypeResponse.model_validate(row): the validation errors of the row
CardTypeResponse_errors(row) == CardTypeBase_errors(CardTypeAttributes(row))

\* CardTypeResponse.model_validate(row): the projection of the row
CardTypeResponse(row) ==
    [id |-> row.id,
     name |-> row.name,
     description |-> row.description,
     image_url |-> row.image_url]

(* models + database: the SQLite tables behind the engine *)

\* a rowid that repeats the largest rowid of the table
NextRowid_reused(table) ==
    IF table = <<>> THEN 1
    ELSE CHOOSE m \in {table[i].id : i \in 1..Len(table)} :
             \A i \in 1..Len(table) : table[i].id <= m

\* INTEGER PRIMARY KEY: the rowid SQLite assigns to a new row
NextRowid(table) ==
    IF table = <<>> THEN 1
    ELSE 1 + (CHOOSE m \in {table[i].id : i \in 1..Len(table)} :
                 \A i \in 1..Len(table) : table[i].id <= m)

\* INSERT INTO card_types without the unique index on card_types.name
INSERT_card_types_not_unique(values, ct) ==
    [error |-> "", id |-> NextRowid(ct),
     card_types |-> Append(ct, [id |-> NextRowid(ct)] @@ values)]

\* INSERT INTO card_types: unique=True on card_types.name
INSERT_card_types(values, ct) ==
    IF \E i \in 1..Len(ct) : ct[i].name = values.name
    THEN [error |-> "IntegrityError", id |-> 0, card_types |-> ct]
    ELSE [error |-> "", id |-> NextRowid(ct),
          card_types |-> Append(ct, [id |-> NextRowid(ct)] @@ values)]

\* Query.first()
first(rows) == IF rows = <<>> THEN None ELSE Some(rows[1])

(* repositories *)

CardTypeRepository_get_all(ct) == ct

CardTypeRepository_get_by_id(id, ct) ==
    first(SelectSeq(ct, LAMBDA t : t.id = id))

\* create_card_type leaving image_url out of the new row
CardTypeRepository_create_card_type_no_image(card_type_data, ct) ==
    LET new_card_type == [name |-> card_type_data.name,
                          description |-> card_type_data.description,
                          image_url |-> None]
        commit == INSERT_card_types(new_card_type, ct)
    IN  [raised |-> commit.error,
         card_types |-> commit.card_types,
         entity |-> IF commit.error = ""
                    THEN first(SelectSeq(commit.card_types, LAMBDA t : t.id = commit.id))
                    ELSE None]

CardTypeRepository_create_card_type(card_type_data, ct) ==
    LET new_card_type == [name |-> card_type_data.name,
                          description |-> card_type_data.description,
                          image_url |-> card_type_data.image_url]
        commit == INSERT_card_types(new_card_type, ct)
    IN  [raised |-> commit.error,
         card_types |-> commit.card_types,
         entity |-> IF commit.error = "" 
                    THEN first(SelectSeq(commit.card_types, LAMBDA t : t.id = commit.id))
                    ELSE None]

\* import app.repositories.card: its line 6 imports app.schemas.card, so the
\* module fails to import and no CardRepository exists
app_repositories_card == app_schemas_card

CardRepository_get_all(ct, cs) == app_repositories_card

CardRepository_get_by_card_type(cardtype_id, ct, cs) == app_repositories_card

CardRepository_get_by_id(id, ct, cs) == app_repositories_card

CardRepository_create_card(card_data, ct, cs) == app_repositories_card

(* services; the detail texts of the HTTPExceptions are transliterated *)

CardTypeService_get_card_types_all(ct) ==
    LET cardtypes == CardTypeRepository_get_all(ct)
    IN  IF \E i \in 1..Len(cardtypes) : CardTypeResponse_errors(cardtypes[i]) # {}
        THEN Raise("ValidationError")
        ELSE LET validated_cardtypes ==
                     [i \in 1..Len(cardtypes) |-> CardTypeResponse(cardtypes[i])]
             IN  Return([card_types |-> validated_cardtypes,
                         total |-> Len(validated_cardtypes)])

CardTypeService_get_card_type_by_id(id, ct) ==
    LET card_type == CardTypeRepository_get_by_id(id, ct)
    IN  IF card_type = None
        THEN HTTPException(404, "Tip karty s takim id ne naidena")
        ELSE IF CardTypeResponse_errors(card_type[1]) # {}
        THEN Raise("ValidationError")
        ELSE Return(CardTypeResponse(card_type[1]))

CardTypeService_create_card_type(cardtype_data, ct) ==
    LET created == CardTypeRepository_create_card_type(cardtype_data, ct)
    IN  (IF created.raised # ""
         THEN Raise(created.raised)
         ELSE IF CardTypeResponse_errors(created.entity[1]) # {}
         THEN Raise("ValidationError")
         ELSE Return(CardTypeResponse(created.entity[1])))
        @@ [card_types |-> created.card_types]

\* import app.services.card: its line 4 imports app.repositories.card, so the
\* module fails to import and no CardService exists
app_services_card == app_repositories_card

CardService_get_cards_all(ct, cs) == app_services_card

CardService_get_card_by_id(id, ct, cs) == app_services_card

CardService_get_by_card_type(cardtype_id, ct, cs) == app_services_card

CardService_create_card(card_data, ct, cs) == app_services_card

(* routes: the HTTP response of an endpoint *)

\* a returned value is a 200, an HTTPException its status code,
\* any other exception a 500
Response(result) ==
    IF result.raised = "" THEN [status |-> 200, body |-> result.value]
    ELSE IF result.raised = "HTTPException"
    THEN [status |-> result.status_code, body |-> result.value]
    ELSE [status |-> 500, body |-> [error |-> result.raised]]

\* a route of a module that fails to import is never registered: the call
\* gives no HTTP answer and opens no session
Unavailable(exception) == [status |-> 0, body |-> [error |-> exception]]

\* a body that fails its schema is answered 422 and the endpoint is not called
RequestValidationError(errors) == [status |-> 422, body |-> [errors |-> errors]]

routes_cardtype_get_cardtypes(ct) ==
    Response(CardTypeService_get_card_types_all(ct))

routes_cardtype_get_cardtype_by_id(cardtype_id, ct) ==
    Response(CardTypeService_get_card_type_by_id(cardtype_id, ct))

routes_cardtype_create_card(body, ct) ==
    IF CardTypeBase_errors(body) # {}
    THEN RequestValidationError(CardTypeBase_errors(body)) @@ [card_types |-> ct]
    ELSE LET result == CardTypeService_create_card_type(CardTypeCreate(body), ct)
         IN  Response(result) @@ [card_types |-> result.card_types]

\* import app.routes.card: its line 5 imports app.schemas.card, so the module
\* fails to import and none of its three routes is registered
app_routes_card == app_schemas_card

routes_card_get_products(ct, cs) ==
    Unavailable(app_routes_card.raised)

routes_card_get_card_by_id(card_id, ct, cs) ==
    Unavailable(app_routes_card.raised)

routes_card_create_card(body, ct, cs) ==
    Unavailable(app_routes_card.raised) @@ [cards |-> cs]

(* the service under a sequence of requests, one endpoint call per step *)

Init ==
    /\ card_types = <<>>
    /\ cards = <<>>
    /\ resp = [op |-> "", args |-> NoArgs, status |-> 0, body |-> NoArgs]
    /\ pc = [r \in 1..NumRequests |-> [at |-> "idle", status |-> 0]]
    /\ db = [r \in 1..NumRequests |-> 0]
    /\ sessions = <<>>

GET_cardtypes ==
    LET r == routes_cardtype_get_cardtypes(card_types)
    IN  /\ resp' = [op |-> "get_cardtypes", args |-> NoArgs,
                    status |-> r.status, body |-> r.body]
        /\ UNCHANGED <<card_types, cards, pc, db, sessions>>

GET_cardtypes_id(cardtype_id) ==
    LET r == routes_cardtype_get_cardtype_by_id(cardtype_id, card_types)
    IN  /\ resp' = [op |-> "get_cardtype_by_id", args |-> [id |-> cardtype_id],
                    status |-> r.status, body |-> r.body]
        /\ UNCHANGED <<card_types, cards, pc, db, sessions>>

POST_cardtypes_create(body) ==
    LET r == routes_cardtype_create_card(body, card_types)
    IN  /\ resp' = [op |-> "create_card_type", args |-> body,
                    status |-> r.status, body |-> r.body]
        /\ card_types' = r.card_types
        /\ UNCHANGED <<cards, pc, db, sessions>>

GET_cards ==
    LET r == routes_card_get_products(card_types, cards)
    IN  /\ resp' = [op |-> "get_products", args |-> NoArgs,
                    status |-> r.status, body |-> r.body]
        /\ UNCHANGED <<card_types, cards, pc, db, sessions>>

GET_cards_id(card_id) ==
    LET r == routes_card_get_card_by_id(card_id, card_types, cards)
    IN  /\ resp' = [op |-> "get_card_by_id", args |-> [id |-> card_id],
                    status |-> r.status, body |-> r.body]
        /\ UNCHANGED <<card_types, cards, pc, db, sessions>>

POST_cards_create(body) ==
    LET r == routes_card_create_card(body, card_types, cards)
    IN  /\ resp' = [op |-> "create_card", args |-> body,
                    status |-> r.status, body |-> r.body]
        /\ cards' = r.cards
        /\ UNCHANGED <<card_types, pc, db, sessions>>

\* CardService.get_by_card_type has no route: the service is called directly
get_by_card_type(cardtype_id) ==
    LET result == CardService_get_by_card_type(cardtype_id, card_types, cards)
    IN  /\ resp' = [op |-> "get_by_card_type", args |-> [id |-> cardtype_id],
                    status |-> IF result.raised = "" THEN 200 ELSE 0,
                    body |-> IF result.raised = "" THEN result.value
                             ELSE [error |-> result.raised]]
        /\ UNCHANGED <<card_types, cards, pc, db, sessions>>

Next ==
    \/ GET_cardtypes
    \/ \E id \in Ids : GET_cardtypes_id(id)
    \/ \E body \in CardTypeBodies : POST_cardtypes_create(body)
    \/ GET_cards
    \/ \E id \in Ids : GET_cards_id(id)
    \/ \E body \in CardBodies : POST_cards_create(body)
    \/ \E id \in Ids : get_by_card_type(id)

Spec == Init /\ [][Next]_vars

(* database.get_db: the session of each request *)

Requests == 1..NumRequests

\* db = SessionLocal(); yield db
get_db_enter(r) ==
    /\ pc[r].at = "idle"
    /\ sessions' = Append(sessions, [open |-> TRUE, closes |-> 0])
    /\ db' = [db EXCEPT ![r] = Len(sessions) + 1]
    /\ pc' = [pc EXCEPT ![r].at = "endpoint"]
    /\ UNCHANGED <<card_types, cards, resp>>

\* the endpoint has run with the session and returned or raised
returns(r, response, ct, cs) ==
    /\ card_types' = ct
    /\ cards' = cs
    /\ pc' = [pc EXCEPT ![r] = [at |-> "finally", status |-> response.status]]

\* the endpoint of the request runs: any registered route, with any input
\* (the routes of app.routes.card are not registered)
endpoint(r) ==
    /\ pc[r].at = "endpoint"
    /\ \/ returns(r, routes_cardtype_get_cardtypes(card_types), card_types, cards)
       \/ \E id \in Ids :
             returns(r, routes_cardtype_get_cardtype_by_id(id, card_types), card_types, cards)
       \/ \E body \in CardTypeBodies :
             LET response == routes_cardtype_create_card(body, card_types)
             IN  returns(r, response, response.card_types, cards)
    /\ UNCHANGED <<resp, db, sessions>>

\* get_db closing the session after the yield without try/finally: the
\* session is closed only when the endpoint returned
get_db_exit_no_finally(r) ==
    /\ pc[r].at = "finally"
    /\ sessions' = IF pc[r].status = 200
                   THEN [sessions EXCEPT ![db[r]] =
                            [open |-> FALSE, closes |-> sessions[db[r]].closes + 1]]
                   ELSE sessions
    /\ pc' = [pc EXCEPT ![r].at = "done"]
    /\ UNCHANGED <<card_types, cards, resp, db>>

\* finally: db.close()
get_db_exit(r) ==
    /\ pc[r].at = "finally"
    /\ sessions' = [sessions EXCEPT ![db[r]] =
                       [open |-> FALSE, closes |-> sessions[db[r]].closes + 1]]
    /\ pc' = [pc EXCEPT ![r].at = "done"]
    /\ UNCHANGED <<card_types, cards, resp, db>>

SessionNext ==
    \E r \in Requests : get_db_enter(r) \/ endpoint(r) \/ get_db_exit(r)

\* a request that has started runs to completion
SessionSpec ==
    /\ Init
    /\ [][SessionNext]_vars
    /\ \A r \in Requests : WF_vars(endpoint(r)) /\ WF_vars(get_db_exit(r))

(* Properties *)

IdsOf(table) == {table[i].id : i \in 1..Len(table)}

NamesOf(table) == {table[i].name : i \in 1..Len(table)}

IsPrefix(s, t) == Len(s) <= Len(t) /\ \A i \in 1..Len(s) : t[i] = s[i]

\* the fields a card is answered with
CardFields(row) ==
    [id |-> row.id,
     name |-> row.name,
     description |-> row.description,
     mana_price |-> row.mana_price,
     image_url |-> row.image_url,
     hp |-> row.hp,
     attack |-> row.attack,
     card_type_id |-> row.card_type_id]

OutOfRange(body) ==
    \/ "mana_price" \in DOMAIN body /\ (body.mana_price < 0 \/ body.mana_price > 10)
    \/ "hp" \in DOMAIN body /\ (body.hp < 0 \/ body.hp > 100)
    \/ "attack" \in DOMAIN body /\ (body.attack < 0 \/ body.attack > 100)

\* a card body with every required field, lengths and ranges within bounds
ValidCardBody(body) ==
    /\ {"name", "description", "card_type_id"} \subseteq DOMAIN body
    /\ Len(body.name) \in 5..100
    /\ Len(body.description) \in 2..500
    /\ ~ OutOfRange(body)

\* C1: in every storage state the envelope of list_all, for card types and for
\* cards, is returned with total equal to the number of its items, which is
\* the number of persisted entities of the kind.
C1_ListTotal ==
    /\ LET r == CardTypeService_get_card_types_all(card_types)
       IN  /\ r.raised = ""
           /\ r.value.total = Len(r.value.card_types)
           /\ r.value.total = Cardinality(IdsOf(card_types))
    /\ LET r == CardService_get_cards_all(card_types, cards)
       IN  /\ r.raised = ""
           /\ r.value.total = Len(r.value.products)
           /\ r.value.total = Cardinality(IdsOf(cards))
    /\ resp.op = "get_cardtypes" =>
          /\ resp.status = 200
          /\ resp.body.total = Len(resp.body.card_types)
          /\ resp.body.total = Cardinality(IdsOf(card_types))
    /\ resp.op = "get_products" =>
          /\ resp.status = 200
          /\ resp.body.total = Len(resp.body.products)
          /\ resp.body.total = Cardinality(IdsOf(cards))

\* C2: right after a successful create, get_by_id on the returned id returns
\* the entity with every field equal to the input, defaults applied.
C2_CreateThenGet ==
    /\ (resp.op = "create_card_type" /\ resp.status = 200) =>
          LET got == routes_cardtype_get_cardtype_by_id(resp.body.id, card_types)
          IN  /\ got.status = 200
              /\ got.body.id = resp.body.id
              /\ got.body.name = resp.args.name
              /\ got.body.description = resp.args.description
              /\ got.body.image_url = (IF "image_url" \in DOMAIN resp.args
                                       THEN <<resp.args.image_url>> ELSE <<>>)
    /\ (resp.op = "create_card" /\ resp.status = 200) =>
          LET got == routes_card_get_card_by_id(resp.body.id, card_types, cards)
              in == resp.args
          IN  /\ got.status = 200
              /\ got.body.id = resp.body.id
              /\ got.body.name = in.name
              /\ got.body.description = in.description
              /\ got.body.image_url = (IF "image_url" \in DOMAIN in
                                       THEN <<in.image_url>> ELSE <<>>)
              /\ got.body.mana_price = (IF "mana_price" \in DOMAIN in THEN in.mana_price ELSE 1)
              /\ got.body.hp = (IF "hp" \in DOMAIN in THEN in.hp ELSE 100)
              /\ got.body.attack = (IF "attack" \in DOMAIN in THEN in.attack ELSE 50)
              /\ got.body.card_type_id = in.card_type_id

C2_Witness ==
    /\ resp.op = "create_card_type"
    /\ resp.status = 200
    /\ "image_url" \in DOMAIN resp.args
    /\ Len(card_types) = 2

\* C3: get_by_id of either service raises the 404 HTTPException exactly when
\* no persisted entity has the id, and otherwise returns the projection of
\* the entity with that id; the repository returns None on a miss.
C3_NotFound ==
    /\ \A id \in Ids :
          LET s == CardTypeService_get_card_type_by_id(id, card_types)
          IN  IF id \in IdsOf(card_types)
              THEN /\ s.raised = ""
                   /\ s.value.id = id
                   /\ \E i \in 1..Len(card_types) :
                         card_types[i].id = id /\ s.value = CardTypeResponse(card_types[i])
              ELSE /\ s.raised = "HTTPException"
                   /\ s.status_code = 404
                   /\ CardTypeRepository_get_by_id(id, card_types) = None
    /\ \A id \in Ids :
          LET s == CardService_get_card_by_id(id, card_types, cards)
          IN  IF id \in IdsOf(cards)
              THEN /\ s.raised = ""
                   /\ s.value.id = id
                   /\ \E i \in 1..Len(cards) :
                         cards[i].id = id /\ s.value = CardFields(cards[i])
              ELSE /\ s.raised = "HTTPException"
                   /\ s.status_code = 404
                   /\ CardRepository_get_by_id(id, card_types, cards) = None
    /\ resp.op = "get_cardtype_by_id" =>
          /\ resp.status = 404 <=> resp.args.id \notin IdsOf(card_types)
          /\ resp.status # 404 => resp.status = 200 /\ resp.body.id = resp.args.id
    /\ resp.op = "get_card_by_id" =>
          /\ resp.status = 404 <=> resp.args.id \notin IdsOf(cards)
          /\ resp.status # 404 => resp.status = 200 /\ resp.body.id = resp.args.id

DanglingReference(body) ==
    /\ ValidCardBody(body)
    /\ body.card_type_id \notin IdsOf(card_types)

\* C4: creating a card whose card_type_id is the id of no persisted card type
\* fails with a distinguishable InvalidReference outcome, a client-error
\* answer that is neither success nor a generic internal error, and leaves
\* the persisted cards unchanged.
C4_InvalidReference ==
    [][(resp'.op = "create_card" /\ DanglingReference(resp'.args))
          => (resp'.status \in 400..499 /\ cards' = cards)]_vars

StatsInRange ==
    \A i \in 1..Len(cards) :
        /\ cards[i].mana_price \in 0..10
        /\ cards[i].hp \in 0..100
        /\ cards[i].attack \in 0..100

\* C5: creating a card with mana_price outside 0..10, hp outside 0..100 or
\* attack outside 0..100 is answered with the validation error and persists
\* nothing; no persisted card holds an out-of-range value.
C5_RangeValidation ==
    /\ []StatsInRange
    /\ [][(resp'.op = "create_card" /\ OutOfRange(resp'.args))
             => (resp'.status = 422 /\ cards' = cards)]_vars

\* C6: get_by_card_type returns exactly the persisted cards whose
\* card_type_id is the given id, and an empty list with total 0 when there is
\* none, whether or not a card type with that id exists.
C6_ListByParent ==
    /\ \A id \in Ids :
          LET r == CardService_get_by_card_type(id, card_types, cards)
              matching == {i \in 1..Len(cards) : cards[i].card_type_id = id}
          IN  /\ r.raised = ""
              /\ Range(r.value.products) = {CardFields(cards[i]) : i \in matching}
              /\ Len(r.value.products) = Cardinality(matching)
              /\ r.value.total = Cardinality(matching)
    /\ resp.op = "get_by_card_type" =>
          /\ resp.status = 200
          /\ \A i \in 1..Len(resp.body.products) :
                resp.body.products[i].card_type_id = resp.args.id
          /\ resp.body.total =
                Cardinality({i \in 1..Len(cards) : cards[i].card_type_id = resp.args.id})

\* C7: every persisted card's card_type_id is the id of a persisted card type.
C7_ReferentialIntegrity ==
    \A i \in 1..Len(cards) : cards[i].card_type_id \in IdsOf(card_types)

UniqueNames ==
    /\ \A i, j \in 1..Len(card_types) :
          card_types[i].name = card_types[j].name => i = j
    /\ \A i, j \in 1..Len(cards) :
          cards[i].name = cards[j].name => i = j

\* C8: no two persisted card types share a name and no two persisted cards
\* share a name; a create with the name of a persisted entity of the same
\* kind does not succeed and persists nothing.
C8_UniqueNames ==
    /\ []UniqueNames
    /\ [][/\ (resp'.op = "create_card_type" /\ "name" \in DOMAIN resp'.args
                 /\ resp'.args.name \in NamesOf(card_types))
              => (resp'.status # 200 /\ card_types' = card_types)
          /\ (resp'.op = "create_card" /\ "name" \in DOMAIN resp'.args
                 /\ resp'.args.name \in NamesOf(cards))
              => (resp'.status # 200 /\ cards' = cards)]_vars

C8_Witness ==
    /\ resp.op = "create_card_type"
    /\ resp.status = 500
    /\ resp.args.name \in NamesOf(card_types)
    /\ Len(card_types) = 2

SessionsOpenWhileHeld ==
    \A r \in Requests :
        pc[r].at \in {"endpoint", "finally"} =>
            /\ db[r] \in 1..Len(sessions)
            /\ sessions[db[r]].open
            /\ sessions[db[r]].closes = 0

SessionsClosedOnce ==
    \A r \in Requests :
        pc[r].at = "done" =>
            /\ ~ sessions[db[r]].open
            /\ sessions[db[r]].closes = 1

OwnSession ==
    \A r, q \in Requests :
        (r # q /\ db[r] # 0 /\ db[q] # 0) => db[r] # db[q]

\* C9: a request that acquired a session from get_db eventually closes it,
\* exactly once, whether the endpoint returned, raised the 404 or raised a
\* storage error; no request ends with its session open, and requests in
\* flight together hold different sessions.
C9_SessionClosed ==
    /\ []SessionsOpenWhileHeld
    /\ []SessionsClosedOnce
    /\ []OwnSession
    /\ \A r \in Requests : (pc[r].at = "endpoint") ~> (pc[r].at = "done")

C9_Witness ==
    \E r, q \in Requests :
        /\ pc[r] = [at |-> "done", status |-> 500]
        /\ pc[q] = [at |-> "done", status |-> 200]
        /\ sessions[db[r]] = [open |-> FALSE, closes |-> 1]
        /\ sessions[db[q]] = [open |-> FALSE, closes |-> 1]
        /\ db[r] # db[q]

ReadOps ==
    {"get_cardtypes", "get_cardtype_by_id", "get_products", "get_card_by_id", "get_by_card_type"}

\* C10: no step removes or changes a persisted entity; the reads and a failed
\* create leave storage unchanged, and a successful create appends exactly
\* one entity of its kind, with an id no entity of the kind had, and changes
\* nothing else.
C10_Frame ==
    [][/\ IsPrefix(card_types, card_types')
       /\ IsPrefix(cards, cards')
       /\ resp'.op \in ReadOps => (card_types' = card_types /\ cards' = cards)
       /\ resp'.status # 200 => (card_types' = card_types /\ cards' = cards)
       /\ (resp'.op = "create_card_type" /\ resp'.status = 200) =>
             /\ Len(card_types') = Len(card_types) + 1
             /\ cards' = cards
             /\ card_types'[Len(card_types')].id = resp'.body.id
             /\ resp'.body.id \notin IdsOf(card_types)
       /\ (resp'.op = "create_card" /\ resp'.status = 200) =>
             /\ Len(cards') = Len(cards) + 1
             /\ card_types' = card_types
             /\ cards'[Len(cards')].id = resp'.body.id
             /\ resp'.body.id \notin IdsOf(cards)]_vars

C10_Witness ==
    /\ resp.op = "create_card_type"
    /\ resp.status = 200
    /\ Len(card_types) = 2
    /\ resp.body.id = 2

====
